---- MODULE Spec2Model ----
(***************************************************************************)
(* Model of mgnify_pipelines_toolkit/analysis/amplicon/amplicon_utils.py:  *)
(* get_read_count, fetch_mcp, build_mcp_cons_dict_list and build_cons_seq. *)
(*                                                                         *)
(* Python strings that are indexed, sliced or reversed are sequences of    *)
(* one-character strings.  A dict is the sequence of its <<key, value>>    *)
(* items in insertion order.  Python floats are IEEE-754 doubles and are   *)
(* modelled bit for bit (section "binary64"), because build_cons_seq       *)
(* compares a floating-point running sum with the threshold.               *)
(***************************************************************************)
EXTENDS Integers, Sequences, FiniteSets, TLC

\* ---------------------------------------------------------------- bounds
\* Longest conservation table given to build_cons_seq.
MaxLen == 3
\* Most keys of one position's count mapping in the single-position inputs.
MaxKeys == 3
\* Physical lines of the largest read file.
MaxLines == 10
\* Longest window of a window frequency table.
MaxWin == 2
\* Most distinct windows of a window frequency table.
MaxMcps == 2
\* Largest frequency of one window.
MaxFreq == 2

\* -------------------------------------------------------------- binary64
\* A non-negative finite double is [hi, lo, e] with value
\* (hi * 2^26 + lo) * 2^e, normalised so that 2^26 <= hi < 2^27 and
\* 0 <= lo < 2^26 (a 53-bit significand); zero is [0, 0, 0].  Every
\* operation rounds to nearest, ties to even, as the hardware does.
\* Intermediate integers stay below 2^31, which holds for operands built
\* from integers below 32.
Limb == 2 ^ 26

Pow2(n) == 2 ^ n

FZero == [hi |-> 0, lo |-> 0, e |-> 0]

\* Significand + 1 unit in the last place, renormalised.
FRoundUp(hi, lo, e) ==
    IF lo + 1 < Limb THEN [hi |-> hi, lo |-> lo + 1, e |-> e]
    ELSE IF hi + 1 < 2 * Limb THEN [hi |-> hi + 1, lo |-> 0, e |-> e]
    ELSE [hi |-> Limb, lo |-> 0, e |-> e + 1]

\* Largest k >= 0 with d * 2^k <= c (for c >= d > 0).
RECURSIVE ShiftDown(_, _)
ShiftDown(c, d) == IF 2 * d <= c THEN 1 + ShiftDown(c, 2 * d) ELSE 0

\* Smallest k >= 0 with c * 2^k >= d (for c > 0).
RECURSIVE ShiftUp(_, _)
ShiftUp(c, d) == IF c >= d THEN 0 ELSE 1 + ShiftUp(2 * c, d)

\* Python's int / int (true division, correctly rounded) for c >= 0, d > 0.
FDiv(c, d) ==
    IF c = 0 THEN FZero
    ELSE LET kd  == IF c >= d THEN ShiftDown(c, d) ELSE 0
             ku  == IF c >= d THEN 0 ELSE ShiftUp(c, d)
             num == c * Pow2(ku)
             den == d * Pow2(kd)
             r0  == num - den
             hi  == Limb + (r0 * Limb) \div den
             r1  == (r0 * Limb) % den
             lo  == (r1 * Limb) \div den
             r2  == (r1 * Limb) % den
             ex  == kd - ku - 52
         IN  IF 2 * r2 > den \/ (2 * r2 = den /\ lo % 2 = 1)
             THEN FRoundUp(hi, lo, ex)
             ELSE [hi |-> hi, lo |-> lo, e |-> ex]

\* x >= y on doubles.
FGe(x, y) ==
    IF y = FZero THEN TRUE
    ELSE IF x = FZero THEN FALSE
    ELSE IF x.e # y.e THEN x.e > y.e
    ELSE IF x.hi # y.hi THEN x.hi > y.hi
    ELSE x.lo >= y.lo

\* The part of y's significand that falls below x's last place when y is
\* aligned to x (d = x.e - y.e >= 0): 0 none, 1 below half, 2 half, 3 above.
FLost(y, d) ==
    IF d = 0 THEN 0
    ELSE IF d <= 26 THEN
        LET rem == y.lo % Pow2(d)
            half == Pow2(d - 1)
        IN  IF rem = 0 THEN 0 ELSE IF rem < half THEN 1
            ELSE IF rem = half THEN 2 ELSE 3
    ELSE
        LET remhi == y.hi % Pow2(d - 26)
            halfhi == Pow2(d - 27)
        IN  IF remhi = 0 /\ y.lo = 0 THEN 0
            ELSE IF remhi < halfhi THEN 1
            ELSE IF remhi = halfhi /\ y.lo = 0 THEN 2 ELSE 3

\* x + y for doubles with x.e >= y.e, both non-zero.
FAddOrdered(x, y) ==
    LET d == x.e - y.e
    IN  IF d > 53 THEN x
        ELSE
        LET qhi == IF d <= 26 THEN y.hi \div Pow2(d) ELSE 0
            qlo == IF d = 0 THEN y.lo
                   ELSE IF d <= 26
                   THEN (y.hi % Pow2(d)) * Pow2(26 - d) + y.lo \div Pow2(d)
                   ELSE y.hi \div Pow2(d - 26)
            lost == FLost(y, d)
            slo == (x.lo + qlo) % Limb
            shi == x.hi + qhi + (x.lo + qlo) \div Limb
        IN  IF shi < 2 * Limb
            THEN IF lost = 3 \/ (lost = 2 /\ slo % 2 = 1)
                 THEN FRoundUp(shi, slo, x.e)
                 ELSE [hi |-> shi, lo |-> slo, e |-> x.e]
            ELSE
            LET bit == slo % 2
                tlo == slo \div 2 + (shi % 2) * (Limb \div 2)
                thi == shi \div 2
                up  == bit = 1 /\ (lost # 0 \/ tlo % 2 = 1)
            IN  IF up THEN FRoundUp(thi, tlo, x.e + 1)
                ELSE [hi |-> thi, lo |-> tlo, e |-> x.e + 1]

\* Python's float + float on non-negative doubles.
FAdd(x, y) ==
    IF x = FZero THEN y
    ELSE IF y = FZero THEN x
    ELSE IF x.e >= y.e THEN FAddOrdered(x, y)
    ELSE FAddOrdered(y, x)

\* ------------------------------------------------------------------ state
VARIABLES
    pc,              \* where the running function is
    raised,          \* the exception that ended it, or "none"
    \* build_cons_seq: arguments, locals and result
    cons_list, read_count, cons_threshold, do_not_include, counter,
    max_line_count, cons_seq, cons_confs, cons_bases,
    pos,             \* table entries whose loop iteration has finished
    counter0,        \* the counter argument as the caller passed it
    \* build_mcp_cons_dict_list
    mcp_count_dict, mcp_len, mcp_cons_list,
    \* fetch_mcp
    fastq, prefix_len, start, rev, selected_lines,
    i,               \* index of the next line of the file
    \* get_read_count
    read_path, type, stdout
\* A name that two functions use (read_count, max_line_count,
\* mcp_count_dict) is one variable: each specification runs one function.

consVars == <<cons_list, read_count, cons_threshold, do_not_include, counter,
              max_line_count, cons_seq, cons_confs, cons_bases, pos, counter0>>

aggVars == <<mcp_len, mcp_cons_list>>
fetchVars == <<fastq, prefix_len, start, rev, selected_lines, i>>
rcVars == <<read_path, type, stdout>>

vars == <<pc, raised, consVars, mcp_count_dict, aggVars, fetchVars, rcVars>>

\* The elements of a sequence.
SetOf(seq) == {seq[k] : k \in 1..Len(seq)}

\* Python's None, and a value that is not None.
None == <<>>
Some(x) == <<x>>

\* ---------------------------------------------------------- build_cons_seq
\* constants/regex_ambiguous_bases.py: sorted, comma-joined bases -> symbol.
AMBIGUOUS_BASES_DICT_REV ==
    ("A,G" :> "R") @@ ("C,T" :> "Y") @@ ("C,G" :> "S") @@ ("A,T" :> "W") @@
    ("G,T" :> "K") @@ ("A,C" :> "M") @@ ("C,G,T" :> "B") @@ ("A,G,T" :> "D") @@
    ("A,C,T" :> "H") @@ ("A,C,G" :> "V") @@ ("A,C,G,T" :> "N")

\* Code points of the symbols, the order sorted() puts one-character strings in.
Ord == ("A" :> 65) @@ ("C" :> 67) @@ ("G" :> 71) @@ ("N" :> 78) @@ ("T" :> 84)

\* The items of count_dict the loop at lines 116-118 does not skip.
IsBase(item) == item[1] \in {"A", "T", "C", "G"}
Retained(count_dict) == SelectSeq(count_dict, IsBase)

\* The divisor of lines 120-123.
Denominator(rc, mlc) == IF mlc = None THEN rc ELSE mlc[1]

\* cons_dict after the loop at lines 116-126 (divisor non-zero).
ConsDict(count_dict, rc, mlc) ==
    LET kept == Retained(count_dict)
    IN  [k \in 1..Len(kept) |->
            <<kept[k][1], FDiv(kept[k][2], Denominator(rc, mlc))>>]

\* max_count after the loop at lines 116-126.
RECURSIVE MaxCountFrom(_, _)
MaxCountFrom(items, max_count) ==
    IF items = <<>> THEN max_count
    ELSE MaxCountFrom(Tail(items),
                      IF Head(items)[2] > max_count THEN Head(items)[2]
                      ELSE max_count)
MaxCount(count_dict) == MaxCountFrom(Retained(count_dict), 0)

\* sorted(items, key = proportion, reverse = True): stable, so items of equal
\* proportion keep their insertion order.
RECURSIVE InsertDesc(_, _)
InsertDesc(sorted, item) ==
    IF sorted = <<>> THEN <<item>>
    ELSE IF FGe(Head(sorted)[2], item[2])
         THEN <<Head(sorted)>> \o InsertDesc(Tail(sorted), item)
         ELSE <<item>> \o sorted
RECURSIVE SortDescFrom(_, _)
SortDescFrom(sorted, items) ==
    IF items = <<>> THEN sorted
    ELSE SortDescFrom(InsertDesc(sorted, Head(items)), Tail(items))
SortedConsDict(cons_dict) == SortDescFrom(<<>>, cons_dict)

\* The comparison of line 142 the wrong way round.
ReachesThresholdReversed(curr_prop, threshold) == FGe(threshold, curr_prop)

\* The comparison of line 142.
ReachesThreshold(curr_prop, threshold) == FGe(curr_prop, threshold)

\* The loop of lines 139-143: append bases until the running sum reaches
\* the threshold.
RECURSIVE TakeBases(_, _, _)
TakeBases(items, curr_prop, threshold) ==
    IF items = <<>> THEN <<>>
    ELSE LET sum == FAdd(curr_prop, Head(items)[2])
         IN  <<Head(items)[1]>> \o
             (IF ReachesThreshold(sum, threshold) THEN <<>>
              ELSE TakeBases(Tail(items), sum, threshold))

\* sorted(cons_bases) of line 145.
RECURSIVE InsertAsc(_, _)
InsertAsc(sorted, base) ==
    IF sorted = <<>> THEN <<base>>
    ELSE IF Ord[Head(sorted)] <= Ord[base]
         THEN <<Head(sorted)>> \o InsertAsc(Tail(sorted), base)
         ELSE <<base>> \o sorted
RECURSIVE SortAscFrom(_, _)
SortAscFrom(sorted, bases) ==
    IF bases = <<>> THEN sorted
    ELSE SortAscFrom(InsertAsc(sorted, Head(bases)), Tail(bases))

\* cons_bases after line 145.
ConsBases(count_dict, rc, mlc, threshold) ==
    SortAscFrom(<<>>,
        TakeBases(SortedConsDict(ConsDict(count_dict, rc, mlc)), FZero, threshold))

\* ",".join(cons_bases) of line 150.
RECURSIVE Join(_)
Join(bases) ==
    IF bases = <<>> THEN ""
    ELSE IF Len(bases) = 1 THEN Head(bases)
    ELSE Head(bases) \o "," \o Join(Tail(bases))

\* What the iteration is about to work on.
InLoop == pc = "cons_loop" /\ pos < Len(cons_list)
CountDict == cons_list[pos + 1]
IsGap == counter \in do_not_include

\* A gap position that also records a confidence, as a resolved one does.
GapStepAppendsConf ==
    /\ InLoop /\ IsGap
    /\ counter' = counter + 1
    /\ cons_seq' = Append(cons_seq, "N")
    /\ cons_confs' = Append(cons_confs, FZero)
    /\ pos' = pos + 1
    /\ UNCHANGED <<pc, raised, cons_list, read_count, cons_threshold,
                   do_not_include, max_line_count, cons_bases, counter0>>
    /\ UNCHANGED <<mcp_count_dict, aggVars, fetchVars, rcVars>>

\* Lines 111-114: a position in do_not_include.
GapStep ==
    /\ InLoop /\ IsGap
    /\ counter' = counter + 1
    /\ cons_seq' = Append(cons_seq, "N")
    /\ pos' = pos + 1
    /\ UNCHANGED <<pc, raised, cons_list, read_count, cons_threshold,
                   do_not_include, max_line_count, cons_confs, cons_bases,
                   counter0>>
    /\ UNCHANGED <<mcp_count_dict, aggVars, fetchVars, rcVars>>

\* Lines 121/123: the division is outside the try block, so a zero divisor
\* ends the call as soon as the position holds one of A, T, C, G.
RaiseZeroDivision ==
    /\ InLoop /\ ~IsGap
    /\ Retained(CountDict) # <<>>
    /\ Denominator(read_count, max_line_count) = 0
    /\ pc' = "cons_raised"
    /\ raised' = "ZeroDivisionError"
    /\ UNCHANGED consVars
    /\ UNCHANGED <<mcp_count_dict, aggVars, fetchVars, rcVars>>

\* Lines 131 and 154-157: read_count is zero and the loop above did not
\* divide by zero; the fault is caught before a symbol is appended.
ZeroDivisionCaught ==
    /\ InLoop /\ ~IsGap
    /\ Retained(CountDict) = <<>> \/ Denominator(read_count, max_line_count) # 0
    /\ read_count = 0
    /\ counter' = counter + 1
    /\ cons_confs' = Append(cons_confs, FZero)
    /\ pos' = pos + 1
    /\ UNCHANGED <<pc, raised, cons_list, read_count, cons_threshold,
                   do_not_include, max_line_count, cons_seq, cons_bases,
                   counter0>>
    /\ UNCHANGED <<mcp_count_dict, aggVars, fetchVars, rcVars>>

\* The position passes both divisions.
Resolves ==
    /\ InLoop /\ ~IsGap
    /\ Retained(CountDict) = <<>> \/ Denominator(read_count, max_line_count) # 0
    /\ read_count # 0

NewBases == ConsBases(CountDict, read_count, max_line_count, cons_threshold)

\* Lines 147-152 and 157: one base, or a registered combination.
ConsStep ==
    /\ Resolves
    /\ Len(NewBases) = 1 \/ Join(NewBases) \in DOMAIN AMBIGUOUS_BASES_DICT_REV
    /\ counter' = counter + 1
    /\ cons_bases' = NewBases
    /\ cons_seq' = Append(cons_seq,
                          IF Len(NewBases) = 1 THEN NewBases[1]
                          ELSE AMBIGUOUS_BASES_DICT_REV[Join(NewBases)])
    /\ cons_confs' = Append(cons_confs, FDiv(MaxCount(CountDict), read_count))
    /\ pos' = pos + 1
    /\ UNCHANGED <<pc, raised, cons_list, read_count, cons_threshold,
                   do_not_include, max_line_count, counter0>>
    /\ UNCHANGED <<mcp_count_dict, aggVars, fetchVars, rcVars>>

\* Line 151: the joined bases are not a key of the registry.
RaiseKeyError ==
    /\ Resolves
    /\ Len(NewBases) # 1 /\ Join(NewBases) \notin DOMAIN AMBIGUOUS_BASES_DICT_REV
    /\ counter' = counter + 1
    /\ cons_bases' = NewBases
    /\ pc' = "cons_raised"
    /\ raised' = "KeyError"
    /\ UNCHANGED <<cons_list, read_count, cons_threshold, do_not_include,
                   max_line_count, cons_seq, cons_confs, pos, counter0>>
    /\ UNCHANGED <<mcp_count_dict, aggVars, fetchVars, rcVars>>

\* Line 159.
ConsReturn ==
    /\ pc = "cons_loop" /\ pos = Len(cons_list)
    /\ pc' = "cons_done"
    /\ UNCHANGED <<raised, consVars>>
    /\ UNCHANGED <<mcp_count_dict, aggVars, fetchVars, rcVars>>

NextCons ==
    \/ GapStep
    \/ RaiseZeroDivision
    \/ ZeroDivisionCaught
    \/ ConsStep
    \/ RaiseKeyError
    \/ ConsReturn

\* ------------------------------------------------ build_mcp_cons_dict_list
\* Line 193 with <= for <: a window of exactly the length is skipped too.
TooShortOrEqual(mcp, len) == Len(mcp) <= len

\* Line 193: the window is too short to be used.
TooShort(mcp, len) == Len(mcp) < len

\* index_base_dict[base] += count on a defaultdict(int): a new key goes to
\* the end, a known key keeps its place.
AddCount(index_base_dict, base, count) ==
    IF \E k \in 1..Len(index_base_dict) : index_base_dict[k][1] = base
    THEN [k \in 1..Len(index_base_dict) |->
            IF index_base_dict[k][1] = base
            THEN <<base, index_base_dict[k][2] + count>>
            ELSE index_base_dict[k]]
    ELSE Append(index_base_dict, <<base, count>>)

\* Lines 191-196 for offset idx (from 0): the loop over the windows.
RECURSIVE IndexBaseDict(_, _, _, _)
IndexBaseDict(mcps, len, idx, index_base_dict) ==
    IF mcps = <<>> THEN index_base_dict
    ELSE LET mcp == Head(mcps)[1]
         IN  IndexBaseDict(Tail(mcps), len, idx,
                IF TooShort(mcp, len) THEN index_base_dict
                ELSE AddCount(index_base_dict, mcp[idx + 1], Head(mcps)[2]))

\* Lines 190-197: one position of the table.
AggPosition ==
    /\ pc = "agg_loop" /\ Len(mcp_cons_list) < mcp_len
    /\ mcp_cons_list' = Append(mcp_cons_list,
            IndexBaseDict(mcp_count_dict, mcp_len, Len(mcp_cons_list), <<>>))
    /\ UNCHANGED <<pc, raised, consVars, mcp_count_dict, mcp_len, fetchVars,
                   rcVars>>

\* Line 199.
AggReturn ==
    /\ pc = "agg_loop" /\ Len(mcp_cons_list) >= mcp_len
    /\ pc' = "agg_done"
    /\ UNCHANGED <<raised, consVars, mcp_count_dict, aggVars, fetchVars, rcVars>>

NextAgg == AggPosition \/ AggReturn

\* --------------------------------------------------------------- fetch_mcp
\* The characters bytes.strip() removes: space, tab, line feed, carriage
\* return, form feed and vertical tab.
BytesWhitespace == {" ", "\t", "\n", "\r", "\f", ""}
\* The characters str.strip() removes, those str.isspace() accepts: the six
\* above, the separators 0x1c..0x1f, next line 0x85, no-break space 0xa0 and
\* the ogham space 0x1680.  The spaces 0x2000..0x200a, 0x2028, 0x2029, 0x202f,
\* 0x205f and 0x3000 cannot be written in a string here and are outside the
\* alphabet of the lines.
Whitespace ==
    BytesWhitespace \cup {"", "", "", "", "", " ", " "}

\* strip() with the characters it removes.
RECURSIVE StripLeft(_, _)
StripLeft(line, chars) ==
    IF line # <<>> /\ Head(line) \in chars
    THEN StripLeft(Tail(line), chars) ELSE line
RECURSIVE StripRight(_, _)
StripRight(line, chars) ==
    IF line # <<>> /\ line[Len(line)] \in chars
    THEN StripRight(SubSeq(line, 1, Len(line) - 1), chars) ELSE line

\* str.strip() (line 212).
LStrip(line) == StripLeft(line, Whitespace)
RStrip(line) == StripRight(line, Whitespace)
Strip(line) == RStrip(LStrip(line))
\* bytes.strip() (line 70).
BytesStrip(text) ==
    StripRight(StripLeft(text, BytesWhitespace), BytesWhitespace)

\* line[::-1].
Reversed(line) == [k \in 1..Len(line) |-> line[Len(line) + 1 - k]]

\* line[lo:hi] for indices that are not negative.
Slice(line, lo, hi) ==
    LET last == IF hi < Len(line) THEN hi ELSE Len(line)
    IN  IF lo >= last THEN <<>> ELSE SubSeq(line, lo + 1, last)

\* Lines 214-218: the window of a sequence line.
Window(line, from, len, reverse) ==
    Slice(IF reverse THEN Reversed(line) ELSE line, from - 1, from + len - 1)

\* Lines 219-220 with >= for >: the scan stops when the cap is reached.
CapReached(selected, cap) == cap # None /\ Len(selected) >= cap[1]

\* Lines 219-220: the record cap is set and exceeded.
CapExceeded(selected, cap) == cap # None /\ Len(selected) > cap[1]

\* Lines 210-211: gzip.open(fastq, "rt") reads with universal newlines.  A
\* line ends at a line feed, at a carriage return, or at the two together,
\* and each of them is handed over as one line feed.  rest is what is left
\* of a line of the file, cur the text line being read.
RECURSIVE SplitLines(_, _)
SplitLines(rest, cur) ==
    IF rest = <<>> THEN (IF cur = <<>> THEN <<>> ELSE <<cur>>)
    ELSE IF Head(rest) = "\n"
    THEN <<Append(cur, "\n")>> \o SplitLines(Tail(rest), <<>>)
    ELSE IF Head(rest) = "\r"
    THEN LET after == Tail(rest)
         IN  <<Append(cur, "\n")>> \o
             SplitLines(IF after # <<>> /\ Head(after) = "\n"
                        THEN Tail(after) ELSE after, <<>>)
    ELSE SplitLines(Tail(rest), Append(cur, Head(rest)))
\* The lines the iteration of line 211 yields for a file given as its
\* newline-terminated lines.
RECURSIVE TextLines(_)
TextLines(lines) ==
    IF lines = <<>> THEN <<>>
    ELSE SplitLines(Head(lines), <<>>) \o TextLines(Tail(lines))

\* Lines 211-221: one line of the file.
FetchLine ==
    /\ pc = "fetch_loop" /\ i < Len(TextLines(fastq))
    /\ LET line == Strip(TextLines(fastq)[i + 1])
           selected == IF i % 4 = 1
                       THEN Append(selected_lines,
                                   Window(line, start, prefix_len, rev))
                       ELSE selected_lines
       IN  /\ selected_lines' = selected
           /\ pc' = IF CapExceeded(selected, max_line_count)
                    THEN "fetch_tally" ELSE "fetch_loop"
    /\ i' = i + 1
    /\ UNCHANGED <<raised, cons_list, read_count, cons_threshold,
                   do_not_include, counter, max_line_count, cons_seq,
                   cons_confs, cons_bases, pos, counter0>>
    /\ UNCHANGED <<mcp_count_dict, aggVars, fastq, prefix_len, start, rev,
                   rcVars>>

\* Counter(selected_lines): the windows in the order they were first seen.
RECURSIVE Tally(_, _)
Tally(lines, sequence_counts) ==
    IF lines = <<>> THEN sequence_counts
    ELSE Tally(Tail(lines), AddCount(sequence_counts, Head(lines), 1))

\* sorted(items, key = count, reverse = True), stable.
RECURSIVE InsertByCount(_, _)
InsertByCount(sorted, item) ==
    IF sorted = <<>> THEN <<item>>
    ELSE IF Head(sorted)[2] >= item[2]
         THEN <<Head(sorted)>> \o InsertByCount(Tail(sorted), item)
         ELSE <<item>> \o sorted
RECURSIVE SortByCountFrom(_, _)
SortByCountFrom(sorted, items) ==
    IF items = <<>> THEN sorted
    ELSE SortByCountFrom(InsertByCount(sorted, Head(items)), Tail(items))

\* Lines 223-228, after the file ends or the cap is exceeded.
FetchReturn ==
    /\ pc = "fetch_tally" \/ (pc = "fetch_loop" /\ i = Len(TextLines(fastq)))
    /\ mcp_count_dict' = SortByCountFrom(<<>>, Tally(selected_lines, <<>>))
    /\ pc' = "fetch_done"
    /\ UNCHANGED <<raised, consVars, aggVars, fetchVars, rcVars>>

NextFetch == FetchLine \/ FetchReturn

\* ---------------------------------------------------------- get_read_count
DigitChars == <<"0", "1", "2", "3", "4", "5", "6", "7", "8", "9">>

\* The decimal digits a counting tool prints for n >= 0.
RECURSIVE Decimal(_)
Decimal(n) ==
    IF n < 10 THEN <<DigitChars[n + 1]>>
    ELSE Append(Decimal(n \div 10), DigitChars[(n % 10) + 1])

\* bytes.isdigit().
IsDigit(text) ==
    text # <<>> /\ \A k \in 1..Len(text) : text[k] \in SetOf(DigitChars)

\* int(text) for a text of digits.
DigitValue(ch) == CHOOSE v \in 0..9 : DigitChars[v + 1] = ch
RECURSIVE ParseInt(_)
ParseInt(text) ==
    IF text = <<>> THEN 0
    ELSE 10 * ParseInt(SubSeq(text, 1, Len(text) - 1)) + DigitValue(text[Len(text)])

\* The lines a missing file yields to zcat | wc -l: none.
LinesOf(path) == IF path.exists THEN path.lines ELSE <<>>
\* wc -l counts the newline characters: a last line without one is not
\* counted.
EndsLine(line) == line # <<>> /\ line[Len(line)] = "\n"
\* grep -c "^>": the lines that start with ">", terminated or not.
IsHeader(line) == line # <<>> /\ line[1] = ">"

\* Lines 51-68: the counting command and what it writes on stdout.  grep
\* writes nothing for a file it cannot read; any other type runs nothing.
RunCount ==
    /\ pc = "rc_start"
    /\ stdout' =
         IF type = "fastq"
         THEN Append(Decimal(Len(SelectSeq(LinesOf(read_path), EndsLine))), "\n")
         ELSE IF type = "fasta" /\ read_path.exists
         THEN Append(Decimal(Len(SelectSeq(read_path.lines, IsHeader))), "\n")
         ELSE <<>>
    /\ pc' = "rc_counted"
    /\ UNCHANGED <<raised, consVars, mcp_count_dict, aggVars, fetchVars,
                   read_path, type>>

\* Lines 78-83: the returned count; a fastq count is divided by 4 with
\* true division.
ReadCountOf(digits, kind) ==
    IF kind = "fastq" THEN FDiv(ParseInt(digits), 4) ELSE ParseInt(digits)

\* Lines 70-83 for a numeric count.
RcReturn ==
    /\ pc = "rc_counted" /\ IsDigit(BytesStrip(stdout))
    /\ read_count' = ReadCountOf(BytesStrip(stdout), type)
    /\ pc' = "rc_done"
    /\ UNCHANGED <<raised, cons_list, cons_threshold, do_not_include, counter,
                   max_line_count, cons_seq, cons_confs, cons_bases, pos,
                   counter0>>
    /\ UNCHANGED <<mcp_count_dict, aggVars, fetchVars, rcVars>>

\* Lines 72-76: the count is not numeric.  The message reads stderr, which
\* only the fastq and fasta branches assign.
RcAbort ==
    /\ pc = "rc_counted" /\ ~IsDigit(BytesStrip(stdout))
    /\ raised' = IF type \in {"fastq", "fasta"} THEN "SystemExit"
                 ELSE "UnboundLocalError"
    /\ pc' = "rc_raised"
    /\ UNCHANGED <<consVars, mcp_count_dict, aggVars, fetchVars, rcVars>>

NextRc == RunCount \/ RcReturn \/ RcAbort

\* ------------------------------------------------------------------ inputs
\* Sequences over S of length at most n.
SeqsUpTo(S, n) == UNION {[1..k -> S] : k \in 0..n}

\* 0.80 is the default of cons_threshold (line 89).
DefaultThreshold == FDiv(4, 5)
\* The thresholds as the caller writes them (numerator, denominator), and
\* the doubles build_cons_seq receives.
ThresholdFractions == {<<1, 2>>, <<4, 5>>, <<9, 10>>, <<1, 1>>}
Thresholds == {FDiv(t[1], t[2]) : t \in ThresholdFractions}
ReadCounts == {0, 4, 10}
LineCounts == {None, Some(0), Some(5)}

\* Position mappings of the multi-position tables: one base, a tie of two
\* bases, a base next to a symbol that is not a base, and no base at all.
TableDicts ==
    { << <<"A", 2>> >>,
      << <<"A", 1>>, <<"C", 1>> >>,
      << <<"N", 1>>, <<"G", 3>> >>,
      << <<"N", 1>> >> }

\* Position mappings of the single-position inputs: every order of up to
\* MaxKeys distinct symbols, each with a count.
Symbols == {"A", "C", "G", "T", "N"}
Counts == {1, 2, 7}
PosDicts ==
    {d \in SeqsUpTo(Symbols \X Counts, MaxKeys) :
        \A j, k \in 1..Len(d) : j # k => d[j][1] # d[k][1]}

\* Reads, and the files made of them.  A fastq file is the first n lines of
\* a run of four-line records (header, sequence, separator, qualities), so it
\* may end inside a record; a fasta file alternates headers and sequences.
\* Two reads hold a carriage return, inside and at the end of the line.
Reads == { <<"A", "C", "G">>, <<"C", "A">>, <<"A">>, <<" ", "A", "\f">>,
           <<"A", "\r", "C">>, <<"C", "\r">> }
FastqLine(seqs, idx) ==
    CASE idx % 4 = 0 -> <<"@", "r", "\n">>
      [] idx % 4 = 1 -> Append(seqs[idx \div 4 + 1], "\n")
      [] idx % 4 = 2 -> <<"+", "\n">>
      [] idx % 4 = 3 -> <<"I", "I", "\n">>
FastqFiles ==
    UNION { {[k \in 1..n |-> FastqLine(seqs, k - 1)] :
                seqs \in [1..((n + 2) \div 4) -> Reads]} : n \in 0..MaxLines }
FastaFiles ==
    {[k \in 1..n |-> IF k % 2 = 1 THEN <<">", "r", "\n">>
                                  ELSE <<"A", "C", "\n">>] : n \in 0..MaxLines}
\* The file without the newline of its last line: a file cut inside a line.
Unterminated(file) ==
    IF file = <<>> THEN file
    ELSE [file EXCEPT ![Len(file)] = SubSeq(@, 1, Len(@) - 1)]
\* Files as they are, and cut inside their last line.
WithUnterminated(files) == files \cup {Unterminated(f) : f \in files}
Caps == {None, Some(0), Some(1), Some(2)}

\* Window frequency tables: up to MaxMcps distinct windows of up to MaxWin
\* symbols, each seen 1..MaxFreq times.
WindowSymbols == {"A", "C"}
Windows == SeqsUpTo(WindowSymbols, MaxWin)
McpCountDicts ==
    {t \in SeqsUpTo(Windows \X (1..MaxFreq), MaxMcps) :
        \A j, k \in 1..Len(t) : j # k => t[j][1] # t[k][1]}

\* The variables of the functions a specification does not run.
ConsIdle ==
    /\ cons_list = <<>> /\ cons_threshold = DefaultThreshold
    /\ do_not_include = {} /\ counter = 1 /\ cons_seq = <<>>
    /\ cons_confs = <<>> /\ cons_bases = <<>> /\ pos = 0 /\ counter0 = 1
AggIdle == mcp_len = 0 /\ mcp_cons_list = <<>>
FetchIdle ==
    /\ fastq = <<>> /\ prefix_len = 0 /\ start = 1 /\ rev = FALSE
    /\ selected_lines = <<>> /\ i = 0
RcIdle ==
    /\ read_path = [exists |-> FALSE, lines |-> <<>>]
    /\ type = "fastq" /\ stdout = <<>>

ConsStart ==
    /\ pc = "cons_loop"
    /\ raised = "none"
    /\ cons_seq = <<>>
    /\ cons_confs = <<>>
    /\ cons_bases = <<>>
    /\ pos = 0
    /\ counter0 = counter
    /\ mcp_count_dict = <<>>
    /\ AggIdle /\ FetchIdle /\ RcIdle

\* Tables of up to MaxLen positions, with forced gaps and both counters.
InitCons ==
    /\ cons_list \in SeqsUpTo(TableDicts, MaxLen)
    /\ read_count \in ReadCounts
    /\ cons_threshold \in {DefaultThreshold, FDiv(1, 1)}
    /\ do_not_include \in SUBSET (1..MaxLen)
    /\ counter \in {1, 2}
    /\ max_line_count \in LineCounts
    /\ ConsStart

\* One position, any mapping.
InitPos ==
    /\ cons_list \in {<<d>> : d \in PosDicts}
    /\ read_count \in ReadCounts
    /\ cons_threshold \in Thresholds
    /\ do_not_include \in {{}, {1}}
    /\ counter = 1
    /\ max_line_count \in LineCounts
    /\ ConsStart

InitAgg ==
    /\ mcp_count_dict \in McpCountDicts
    /\ mcp_len \in 0..(MaxWin + 1)
    /\ mcp_cons_list = <<>>
    /\ pc = "agg_loop"
    /\ raised = "none"
    /\ read_count = 0 /\ max_line_count = None
    /\ ConsIdle /\ FetchIdle /\ RcIdle

InitFetch ==
    /\ fastq \in WithUnterminated(FastqFiles)
    /\ prefix_len \in {1, 2}
    /\ start \in {1, 2}
    /\ rev \in BOOLEAN
    /\ max_line_count \in Caps
    /\ selected_lines = <<>>
    /\ i = 0
    /\ pc = "fetch_loop"
    /\ raised = "none"
    /\ read_count = 0 /\ mcp_count_dict = <<>>
    /\ ConsIdle /\ AggIdle /\ RcIdle

InitRc ==
    /\ read_path \in {[exists |-> FALSE, lines |-> <<>>]} \cup
                     {[exists |-> TRUE, lines |-> f] :
                         f \in WithUnterminated(FastqFiles \cup FastaFiles)}
    /\ type \in {"fastq", "fasta", "bam"}
    /\ stdout = <<>>
    /\ pc = "rc_start"
    /\ raised = "none"
    /\ read_count = 0 /\ max_line_count = None /\ mcp_count_dict = <<>>
    /\ ConsIdle /\ AggIdle /\ FetchIdle

SpecCons == InitCons /\ [][NextCons]_vars
SpecPos == InitPos /\ [][NextCons]_vars
SpecAgg == InitAgg /\ [][NextAgg]_vars
SpecFetch == InitFetch /\ [][NextFetch]_vars
SpecRc == InitRc /\ [][NextRc]_vars

\* ------------------------------------------------- claims: build_cons_seq
\* The k-th table entry (k from 1) is forced to a gap.
GapAt(k) == counter0 + k - 1 \in do_not_include
Indices(n) == [k \in 1..n |-> k]
NotGapAt(k) == ~GapAt(k)
\* The indices of the entries that are not forced to a gap, in order.
NonGaps == SelectSeq(Indices(Len(cons_list)), NotGapAt)
Returned == pc = "cons_done"

\* C1: whenever build_cons_seq returns, the consensus string has one symbol
\* per entry of the conservation table.
C1_ConsSeqLength == Returned => Len(cons_seq) = Len(cons_list)

\* C2 as stated, on the calls whose read count is not zero: on return the
\* consensus string and the confidence list have the same length, the length
\* of the conservation table.
C2_EqualLengths ==
    (Returned /\ read_count # 0) =>
        /\ Len(cons_seq) = Len(cons_confs)
        /\ Len(cons_confs) = Len(cons_list)

\* C2 amended: on return the confidence list has one entry per position that
\* is not forced to a gap, and the consensus string is no longer than the
\* table.
C2_ConfsPerNonGap ==
    Returned => /\ Len(cons_confs) = Len(NonGaps)
                /\ Len(cons_seq) <= Len(cons_list)

\* A run returned with a forced gap between resolved positions.
C2_Witness ==
    /\ Returned
    /\ Len(cons_list) = 3 /\ Len(cons_confs) = 2 /\ Len(cons_seq) = 3
    /\ GapAt(2)

\* C3: the k-th entry has position number counter0 + k; a position whose
\* number is in do_not_include puts N at index k of the output; the
\* confidence list has one entry per position not in do_not_include.
C3_GapPositions ==
    /\ pc \in {"cons_loop", "cons_done"} => counter = counter0 + pos
    /\ \A k \in 1..pos :
          GapAt(k) => k <= Len(cons_seq) /\ cons_seq[k] = "N"
    /\ Returned => Len(cons_confs) = Len(NonGaps)

\* C4: with a zero read count or a zero override no division fault ends the
\* call, and it returns confidence 0.0 for every position that is not a gap.
C4_ZeroDenominator ==
    (read_count = 0 \/ max_line_count = Some(0)) =>
        /\ raised # "ZeroDivisionError"
        /\ Returned =>
              /\ Len(cons_confs) = Len(NonGaps)
              /\ \A j \in 1..Len(cons_confs) : cons_confs[j] = FZero

\* The largest of the proportions count / denominator of a position's
\* retained bases, the denominator being the override when one is given.
RECURSIVE LargestFrom(_, _)
LargestFrom(items, best) ==
    IF items = <<>> THEN best
    ELSE LargestFrom(Tail(items),
                     IF FGe(Head(items)[2], best) THEN Head(items)[2] ELSE best)
LargestProportion(count_dict) ==
    LargestFrom(ConsDict(count_dict, read_count, max_line_count), FZero)

\* C5: with non-zero denominators, the confidence of every resolved position
\* is the largest proportion among its retained bases.
C5_ConfidenceIsLargestProportion ==
    (read_count # 0 /\ Denominator(read_count, max_line_count) # 0
        /\ pc \in {"cons_loop", "cons_done"}) =>
        \A j \in 1..Len(cons_confs) :
            cons_confs[j] = LargestProportion(cons_list[NonGaps[j]])

\* The threshold as the caller wrote it.
ThresholdFraction ==
    CHOOSE t \in ThresholdFractions : FDiv(t[1], t[2]) = cons_threshold

RECURSIVE SumCounts(_, _)
SumCounts(counts, n) == IF n = 0 THEN 0 ELSE counts[n] + SumCounts(counts, n - 1)

\* The retained bases of a position by descending count (ties in insertion
\* order), with their counts.
Ranked(count_dict) ==
    LET kept == Retained(count_dict)
        byCount == SortedConsDict([k \in 1..Len(kept) |->
                                      <<kept[k], FDiv(kept[k][2], 1)>>])
    IN  [k \in 1..Len(byCount) |-> byCount[k][1]]

\* The prefix lengths whose summed proportion is at least the threshold.
Covers(count_dict) ==
    LET ranked == Ranked(count_dict)
        counts == [k \in 1..Len(ranked) |-> ranked[k][2]]
    IN  {n \in 1..Len(ranked) :
            SumCounts(counts, n) * ThresholdFraction[2] >=
                ThresholdFraction[1] * Denominator(read_count, max_line_count)}

\* The last iteration resolved a position (it was not a gap and no division
\* failed).
JustResolved ==
    /\ pc \in {"cons_loop", "cons_done"}
    /\ pos >= 1 /\ ~GapAt(pos)
    /\ read_count # 0

\* C6: where some prefix of the retained bases, by descending proportion,
\* sums to at least the threshold, the selected bases are the shortest one.
C6_ShortestCover ==
    (JustResolved /\ Covers(cons_list[pos]) # {}) =>
        LET ranked == Ranked(cons_list[pos])
            n == CHOOSE m \in Covers(cons_list[pos]) :
                    \A l \in Covers(cons_list[pos]) : m <= l
        IN  SetOf(cons_bases) = {ranked[k][1] : k \in 1..n}

\* C7: for thresholds t1 <= t2 the bases selected under t1 are among those
\* selected under t2: the selection made under the call's own threshold
\* contains the selection under every lower threshold and is contained in
\* the selection under every higher one.
C7_ThresholdMonotone ==
    JustResolved =>
        \A t \in Thresholds :
            LET other == SetOf(ConsBases(cons_list[pos], read_count,
                                         max_line_count, t))
            IN  /\ FGe(t, cons_threshold) => SetOf(cons_bases) \subseteq other
                /\ FGe(cons_threshold, t) => other \subseteq SetOf(cons_bases)

\* A position where raising the threshold from 0.5 to 1.0 grows the
\* selection from one base to three.
C7_Witness ==
    /\ JustResolved
    /\ cons_threshold = FDiv(1, 2)
    /\ Len(cons_bases) = 1
    /\ Len(ConsBases(cons_list[pos], read_count, max_line_count, FDiv(1, 1))) = 3

\* --------------------------------------- claims: build_mcp_cons_dict_list
\* The count a position mapping holds for a symbol (0 when it has none).
CountOf(index_base_dict, symbol) ==
    IF \E k \in 1..Len(index_base_dict) : index_base_dict[k][1] = symbol
    THEN (CHOOSE it \in SetOf(index_base_dict) : it[1] = symbol)[2]
    ELSE 0

\* The summed frequency of the windows of at least mcp_len symbols whose
\* symbol at offset idx (from 1) is the given one.
RECURSIVE FrequencyAt(_, _, _)
FrequencyAt(mcps, idx, symbol) ==
    IF mcps = <<>> THEN 0
    ELSE (IF Len(Head(mcps)[1]) >= mcp_len /\ Head(mcps)[1][idx] = symbol
          THEN Head(mcps)[2] ELSE 0) + FrequencyAt(Tail(mcps), idx, symbol)

\* C8: the table returned has mcp_len entries, and the count of a symbol at a
\* position is the summed frequency of the windows of at least mcp_len
\* symbols that hold the symbol there; no entry holds any other symbol.
C8_ConservationTable ==
    pc = "agg_done" =>
        /\ Len(mcp_cons_list) = mcp_len
        /\ \A idx \in 1..mcp_len :
            /\ \A symbol \in WindowSymbols :
                CountOf(mcp_cons_list[idx], symbol)
                    = FrequencyAt(mcp_count_dict, idx, symbol)
            /\ \A k \in 1..Len(mcp_cons_list[idx]) :
                /\ mcp_cons_list[idx][k][1] \in WindowSymbols
                /\ \A j \in 1..Len(mcp_cons_list[idx]) :
                    j # k => mcp_cons_list[idx][j][1] # mcp_cons_list[idx][k][1]

\* A table of two positions built from a full window seen twice and a window
\* that is too short: only the full window is counted.
C8_Witness ==
    /\ pc = "agg_done" /\ mcp_len = 2
    /\ mcp_count_dict = << <<(<<"A">>), 1>>, <<(<<"A", "C">>), 2>> >>
    /\ mcp_cons_list = << << <<"A", 2>> >>, << <<"C", 2>> >> >>

\* ----------------------------------------------------- claims: get_read_count
\* The double is a whole number.
FIsIntegral(x) ==
    \/ x = FZero
    \/ x.e >= 0
    \/ /\ -x.e <= 26
       /\ x.lo % Pow2(-x.e) = 0
    \/ /\ -x.e > 26 /\ -x.e <= 52
       /\ x.lo = 0 /\ x.hi % Pow2(-x.e - 26) = 0

\* C9: for a fastq input of n physical lines (newline-terminated lines, a
\* missing file having none) the value returned is n / 4 and is a whole
\* number, and nothing is returned for a count that is not numeric.
C9_ReadCountIsInteger ==
    pc = "rc_done" =>
        /\ IsDigit(BytesStrip(stdout))
        /\ type = "fastq" =>
            /\ read_count =
                  FDiv(Len(SelectSeq(LinesOf(read_path), EndsLine)), 4)
            /\ FIsIntegral(read_count)

\* -------------------------------------------------------- claims: fetch_mcp
\* The indices (from 0) below n of the lines that hold a sequence.
SequenceLines(n) == {k \in 0..(n - 1) : k % 4 = 1}

RECURSIVE TotalCount(_)
TotalCount(counts) ==
    IF counts = <<>> THEN 0 ELSE Head(counts)[2] + TotalCount(Tail(counts))

\* C10: the lines are those the iteration of the file yields.  Each line
\* with index = 1 mod 4 read so far added one window and no
\* other line did; the scan goes on only while the windows do not exceed the
\* cap; the counts returned sum to the number of sequence lines, or to
\* min(sequence lines, cap + 1) under a cap.
C10_CapStopsAfterExceeding ==
    /\ pc \in {"fetch_loop", "fetch_tally"} =>
          Len(selected_lines) = Cardinality(SequenceLines(i))
    /\ pc = "fetch_loop" =>
          max_line_count = None \/ Len(selected_lines) <= max_line_count[1]
    /\ pc = "fetch_done" =>
          LET lines == Cardinality(SequenceLines(Len(TextLines(fastq))))
          IN  TotalCount(mcp_count_dict) =
                IF max_line_count = None \/ lines <= max_line_count[1] + 1
                THEN lines ELSE max_line_count[1] + 1

\* A file of three sequence lines read under cap 1: two windows counted.
C10_Witness ==
    /\ pc = "fetch_done"
    /\ max_line_count = Some(1)
    /\ Cardinality(SequenceLines(Len(TextLines(fastq)))) = 3
    /\ TotalCount(mcp_count_dict) = 2

====
